---- MODULE Spec2Model ----
(***************************************************************************)
(* HcalPhase1Reconstructor (SonicCMS/TensorRT/plugins): the split-phase    *)
(* producer that lays QIE11 digis into the flat input buffer of the        *)
(* inference client (acquire / processData) and rebuilds HBHERecHits from  *)
(* the identity list kept between the two phases (produce).                *)
(*                                                                         *)
(* Numbers are integers: every charge, pedestal and factor of the model is *)
(* a small integer, on which the double and float arithmetic of the code   *)
(* is exact.                                                               *)
(***************************************************************************)
EXTENDS Integers, Sequences, FiniteSets, TLC

\* ------------------------------------------------------------------ bounds
\* client_.batchSize(): the number of rows of the input buffer.
batchSize == 2

\* ------------------------------------------------------- program constants
ninput == 15          \* client_.ninput(): floats per row (2 + 8 + 1 + 4)
soi == 3
nCycles == 8
MAXSAMPLES == 10      \* HBHEChannelInfo::MAXSAMPLES

HcalBarrel == 1
HcalEndcap == 2
HcalOuter == 3
HcalForward == 4

\* A collection holds up to two digis more than the buffer has rows.
MaxDigis == batchSize + 2

Min(a, b) == IF a < b THEN a ELSE b
Max(a, b) == IF a > b THEN a ELSE b

\* ------------------------------------------------------------ input data
\* HcalDetId of a digi.
Cell(sd, eta, phi, dp) == [subdet |-> sd, ieta |-> eta, iphi |-> phi, depth |-> dp]

\* A QIE11 frame: nRead samples, each with an adc code and a capid.
\* Sample ts (0-based) is adc[ts + 1], capid[ts + 1].
Frame8 ==
    [nRead |-> 8,
     adc   |-> <<1, 1, 2, 6, 9, 4, 2, 1>>,
     capid |-> <<0, 1, 2, 3, 0, 1, 2, 3>>]
Frame10 ==
    [nRead |-> 10,
     adc   |-> <<2, 2, 2, 3, 5, 3, 2, 2, 2, 2>>,
     capid |-> <<2, 3, 0, 1, 2, 3, 0, 1, 2, 3>>]

\* Conditions of one channel: pedestal by capid (capid c is ped[c + 1]), the
\* fC/PE factor and the type of its SiPM.
Cond(p, fc, ty) == [ped |-> p, fcByPE |-> fc, sipmType |-> ty]

Digi(c, f, k) == [id |-> c, frame |-> f, cond |-> k]

DigiHB == Digi(Cell(HcalBarrel, 3, 5, 1), Frame8, Cond(<<1, 1, 2, 1>>, 2, 1))
DigiHE == Digi(Cell(HcalEndcap, -4, 6, 2), Frame10, Cond(<<2, 2, 2, 2>>, 1, 1))
\* A channel of the forward calorimeter, whose SiPM parameter is unusable.
DigiHF == Digi(Cell(HcalForward, 7, 8, 1), Frame8, Cond(<<1, 1, 1, 1>>, 0, 1))
\* A channel of the outer calorimeter with an fC/PE factor of zero.
DigiHOBad == Digi(Cell(HcalOuter, 2, 9, 4), Frame8, Cond(<<1, 2, 1, 2>>, 0, 1))

Digis == {DigiHB, DigiHE, DigiHF, DigiHOBad}

RECURSIVE SeqsUpTo(_, _)
SeqsUpTo(S, n) ==
    IF n = 0 THEN {<<>>}
    ELSE LET shorter == SeqsUpTo(S, n - 1)
         IN  shorter \cup {Append(s, x) : s \in {t \in shorter : Len(t) = n - 1}, x \in S}

\* The digi collections an event can hold.
Collections == SeqsUpTo(Digis, MaxDigis)

\* The values the member `depth`, never assigned, can hold.
UninitFloat == {0, 2}

\* The integration window (sipmQTSShift, sipmQNTStoSum) the producer is
\* configured with.
Configs == {[sipmQTSShift |-> 0, sipmQNTStoSum |-> 3]}

\* The buffers the inference client can hand back: one float per row.
Outputs == {[r \in 0..(batchSize - 1) |-> v] : v \in {0, 1}}

\* ------------------------------------------------------ external services
\* HcalCoderDb::adc2fC for one sample: the QIE response, linear in its first
\* range and twice as steep in the next.
Adc2fC(adc) == IF adc < 4 THEN adc ELSE 4 + 2 * (adc - 4)

\* coder.adc2fC(frame, cs): cs has the size of the frame, the decoded charge
\* of each of its samples, and blanks up to MAXSAMPLES.
adc2fC(frame) ==
    [size |-> frame.nRead,
     data |-> [ts \in 0..(MAXSAMPLES - 1) |->
                 IF ts < frame.nRead THEN Adc2fC(frame.adc[ts + 1]) ELSE 0]]

\* HcalCalibrations::pedestal(capid)
pedestal(cond, capid) == cond.ped[capid + 1]

\* HcalSiPMnonlinearity::getRecoCorrectionFactor of sipmQ/fcByPE pixels, for
\* the table of SiPM type ty: 1 at and below zero, growing with the pixels
\* fired (type 1); type 2 is a table that is 2 at zero.
getRecoCorrectionFactor(ty, sipmQ, fcByPE) ==
    IF sipmQ <= 0 THEN (IF ty = 1 THEN 1 ELSE 2)
    ELSE IF sipmQ < 8 * fcByPE THEN 2
    ELSE 3

\* frame[ts]: a sample of the frame; past the end of the frame the read
\* returns whatever follows it in memory (junk).
FrameAt(frame, ts, junk) ==
    IF ts < frame.nRead
    THEN [adc |-> frame.adc[ts + 1], capid |-> frame.capid[ts + 1]]
    ELSE junk

\* (float) of a double, exact on the integers below 2^24.
ToFloat(x) == IF x < 16777216 /\ x > -16777216 THEN x ELSE (x \div 2) * 2

\* ------------------------------------------------- RawChargeFromSample
RECURSIVE SumWindow(_, _, _, _, _, _)
\* The loop of the constructor: the pedestal-subtracted charge of ts..lastTS-1.
SumWindow(ts, lastTS, cond, cs, frame, junk) ==
    IF ts >= lastTS THEN 0
    ELSE (cs.data[ts] - pedestal(cond, FrameAt(frame, ts, junk).capid))
         + SumWindow(ts + 1, lastTS, cond, cs, frame, junk)

\* a + b on int: the sum where it fits 32 bits. Past them the addition
\* overflows, which the language leaves undefined: the build either leaves
\* the sum modulo 2^32 (wraps), or carries the exact sum in a wider register
\* into the comparison that follows, where it acts as the nearest int.
Add32(a, b, wraps) ==
    IF b > 0 /\ a > 2147483647 - b
    THEN (IF wraps THEN (a - 2147483647 - 1) + (b - 2147483647 - 1)
          ELSE 2147483647)
    ELSE IF b < 0 /\ a < (-2147483647 - 1) - b
    THEN (IF wraps THEN (a + 2147483647 + 1) + (b + 2147483647 + 1)
          ELSE -2147483647 - 1)
    ELSE a + b

firstTSOf(soi_, sipmQTSShift, wraps) == Max(Add32(soi_, sipmQTSShift, wraps), 0)
lastTSOf(firstTS, sipmQNTStoSum, maxTS, wraps) ==
    Min(Add32(firstTS, sipmQNTStoSum, wraps), maxTS)

\* A test that lets a factor of exactly zero pass.
BadFcByPE_Strict(fcByPE) == fcByPE < 0

\* The test that makes the constructor throw HBHEPhase1BadDB.
BadFcByPE(fcByPE) == fcByPE <= 0

\* RawChargeFromSample<QIE11DataFrame>: the object the constructor leaves,
\* or thrown = TRUE when it throws before computing anything.
RawChargeFromSample(sipmQTSShift, sipmQNTStoSum, cond, cs, soi_, frame, maxTS, junk, wraps) ==
    IF BadFcByPE(cond.fcByPE)
    THEN [thrown |-> TRUE, factor |-> 0, sipmQ |-> 0, window |-> <<>>,
          firstTS |-> 0, lastTS |-> 0]
    ELSE LET firstTS == firstTSOf(soi_, sipmQTSShift, wraps)
             lastTS  == lastTSOf(firstTS, sipmQNTStoSum, maxTS, wraps)
             sipmQ   == SumWindow(firstTS, lastTS, cond, cs, frame, junk)
         IN  [thrown |-> FALSE,
              factor |-> getRecoCorrectionFactor(cond.sipmType, sipmQ, cond.fcByPE),
              sipmQ  |-> sipmQ,
              window |-> IF lastTS <= firstTS THEN <<>>
                         ELSE [k \in 1..(lastTS - firstTS) |-> firstTS + k - 1],
              firstTS |-> firstTS,
              lastTS |-> lastTS]

\* A correction that scales the charge above the pedestal and leaves the
\* pedestal out of the result.
getRawCharge_NoPedestal(rcfs, decodedCharge, ped) == (decodedCharge - ped) * rcfs.factor

\* RawChargeFromSample<QIE11DataFrame>::getRawCharge
getRawCharge(rcfs, decodedCharge, ped) == (decodedCharge - ped) * rcfs.factor + ped

\* RawChargeFromSample<DFrame>, the template for every other frame kind: a
\* constructor with an empty body and no members, which reads no sample and
\* asks the conditions nothing.
RawChargeFromSampleGeneric(sipmQTSShift, sipmQNTStoSum, cond, cs, soi_, frame, maxTS, junk, wraps) ==
    [thrown |-> FALSE, window |-> <<>>, lookups |-> <<>>]

\* A primary template that corrects as the QIE11 one does, by a factor of 2.
getRawChargeGeneric_Scaled(rcfs, decodedCharge, ped) == (decodedCharge - ped) * 2 + ped

\* RawChargeFromSample<DFrame>::getRawCharge
getRawChargeGeneric(rcfs, decodedCharge, ped) == decodedCharge

\* ------------------------------------------------------------ the producer
VARIABLES
    pc,            \* where the cycle stands: idle, acquired, inferred,
                   \* produced, aborted (acquire threw) or crashed
    sipmQTSShift_, \* configuration, fixed at construction
    sipmQNTStoSum_,
    depth,         \* the member `depth`: declared, never assigned
    digis,         \* the collection of the event being processed
    iInput,        \* client_.input(): the flat buffer, index -> float
    overrun,       \* indices past the end of iInput that were written
    tmp,           \* *tmp (tmprh): the rec hits kept for produce
    iOutput,       \* client_.output() handed to produce
    out,           \* the collection produce puts into the event
    err,           \* the exception acquire threw, "" for none
    writes,        \* history: every write through iInput of this acquire, in
                   \* order, with the place of its digi and the slot meant
    lookups,       \* history: every conditions lookup of this acquire
    factors,       \* history: every factor_ a corrector of this acquire computed
    probe,         \* one channel, frame kind and window handed to a corrector
    answer         \* what the corrector and the charge loop made of the probe

vars == <<pc, sipmQTSShift_, sipmQNTStoSum_, depth, digis, iInput, overrun,
          tmp, iOutput, out, err, writes, lookups, factors, probe, answer>>

BufLen == ninput * batchSize

\* Input(ninput*batchSize, 0.f)
ZeroInput == [i \in 0..(BufLen - 1) |-> 0]

\* HBHERecHit(id, energy, time, timeFalling); energy is counted in halves,
\* so that 0.5 is the integer 1.
HBHERecHit(id, energy2, time, timeFalling) ==
    [id |-> id, energy2 |-> energy2, time |-> time, timeFalling |-> timeFalling]

\* A filter that lets the forward calorimeter through as well.
Admitted_Forward(subdet) ==
    subdet = HcalBarrel \/ subdet = HcalEndcap \/ subdet = HcalOuter
        \/ subdet = HcalForward

\* The subdetector test of processData.
Admitted(subdet) ==
    subdet = HcalBarrel \/ subdet = HcalEndcap \/ subdet = HcalOuter

\* The row counter a digi is written at: the inner `ib` of the loop, the
\* distance of the iterator from the start of the collection (pos is the
\* 1-based place of the digi), which hides the outer ib that counts rec hits.
RowOf(pos, nhits) == pos - 1

\* Where the row's eta and phi go.
EtaIndex(ib) == ib + 0
PhiIndex(ib) == ib + 1
\* Where charge inputTS and depth flag d of the row go.
ChargeIndex(ib, inputTS) == ib * ninput + inputTS + 2
DepthIndex(ib, d) == ib * ninput + d + 10

\* The value compared with d in the depth loop: the member, not the cell.
DepthRead(cell, member) == member

\* One write; a write past the end of the vector either faults (segv) or
\* lands in the memory behind it.
WriteOne(st, pos, w, segv) ==
    IF st.status # "ok" THEN st
    ELSE IF w.idx < BufLen
    THEN [st EXCEPT !.iInput[w.idx] = ToFloat(w.val),
                    !.writes = Append(@, [pos |-> pos, slot |-> w.slot,
                                          idx |-> w.idx, val |-> ToFloat(w.val)])]
    ELSE IF segv
    THEN [st EXCEPT !.status = "SIGSEGV"]
    ELSE [st EXCEPT !.overrun = @ \cup {w.idx},
                    !.writes = Append(@, [pos |-> pos, slot |-> w.slot,
                                          idx |-> w.idx, val |-> ToFloat(w.val)])]

RECURSIVE WriteAll(_, _, _, _, _)
WriteAll(st, pos, ws, k, segv) ==
    IF k > Len(ws) THEN st
    ELSE WriteAll(WriteOne(st, pos, ws[k], segv), pos, ws, k + 1, segv)

\* The writes of the body of the loop for one admitted digi, in order: the
\* nCycles charges, eta, phi and the four depth flags.
ChannelWrites(d, ib, rcfs, cs, member, junk) ==
    [inputTS \in 1..nCycles |->
        [slot |-> "charge",
         idx |-> ChargeIndex(ib, inputTS - 1),
         val |-> getRawCharge(rcfs, cs.data[inputTS - 1],
                              pedestal(d.cond, FrameAt(d.frame, inputTS - 1, junk).capid))]]
    \o << [slot |-> "eta", idx |-> EtaIndex(ib), val |-> d.id.ieta],
          [slot |-> "phi", idx |-> PhiIndex(ib), val |-> d.id.iphi] >>
    \o [k \in 1..4 |->
        [slot |-> "depth",
         idx |-> DepthIndex(ib, k),
         val |-> IF DepthRead(d.id, member) = k THEN 1 ELSE 0]]

\* The lookups processData makes for an admitted digi before the corrector
\* is built, and those of the corrector's constructor (the member
\* initialisers, then the body once the fC/PE test has passed).
LookupsBefore == <<"getHcalCalibrations", "getHcalCoder", "getHcalShape">>
LookupsInit == <<"getHcalSiPMParameter", "getHcalSiPMCharacteristics">>
LookupsBody == <<"getHcalCalibrations">>

Tag(pos, names) == [k \in 1..Len(names) |-> [pos |-> pos, what |-> names[k]]]

\* One pass of the loop of processData, for the digi at place pos.
ProcessChannel(st, d, pos, cfg, member, junk, segv, wraps) ==
    IF st.status # "ok" THEN st
    ELSE IF ~Admitted(d.id.subdet) THEN st
    ELSE
      LET ib    == RowOf(pos, Len(st.tmp))
          cs    == adc2fC(d.frame)
          nRead == cs.size
          maxTS == Min(nRead, MAXSAMPLES)
          rcfs  == RawChargeFromSample(cfg.sipmQTSShift, cfg.sipmQNTStoSum,
                                       d.cond, cs, soi, d.frame, maxTS, junk, wraps)
          st1   == [st EXCEPT !.lookups = @ \o Tag(pos, LookupsBefore \o LookupsInit)]
      IN  IF rcfs.thrown
          THEN [st1 EXCEPT !.status = "HBHEPhase1BadDB"]
          ELSE
            LET st2 == [st1 EXCEPT !.lookups = @ \o Tag(pos, LookupsBody),
                                   !.factors = Append(@, [pos |-> pos,
                                                          factor |-> rcfs.factor])]
                st3 == WriteAll(st2, pos,
                                ChannelWrites(d, ib, rcfs, cs, member, junk), 1, segv)
            IN  IF st3.status # "ok" THEN st3
                ELSE [st3 EXCEPT !.tmp = Append(@, HBHERecHit(d.id, 0, 0, 0))]

RECURSIVE processData(_, _, _, _, _, _, _, _)
\* processData: the loop over the collection, from place pos on.
processData(st, coll, pos, cfg, member, junk, segv, wraps) ==
    IF pos > Len(coll) THEN st
    ELSE processData(ProcessChannel(st, coll[pos], pos, cfg, member, junk, segv, wraps),
                     coll, pos + 1, cfg, member, junk, segv, wraps)

\* What memory past the end of a frame can hold.
JunkSample == [adc |-> 0, capid |-> 0]

\* iInput = Input(ninput*batchSize, 0.f): what acquire makes of the buffer
\* the last cycle left.
StartInput(prev) == ZeroInput

\* An acquire that leaves the ledger of the last cycle in place.
StartLedger_Kept(prev) == prev

\* tmp->clear(): what acquire makes of the ledger the last cycle left.
StartLedger(prev) == <<>>

\* acquire as far as its return or its failure, over the buffer and the
\* ledger the last cycle left: a fresh zeroed buffer, the ledger cleared,
\* then processData over the digis of the event.
AcquireResult(prevInput, prevLedger, coll, cfg, member, segv, wraps) ==
    processData([iInput |-> StartInput(prevInput), overrun |-> {},
                 tmp |-> StartLedger(prevLedger),
                 writes |-> <<>>, lookups |-> <<>>, factors |-> <<>>,
                 status |-> "ok"],
                coll, 1, cfg, member, JunkSample, segv, wraps)

NoProbe == [kind |-> "none"]
NoAnswer == [done |-> FALSE]

\* The producer as its constructor leaves it.
Constructed ==
    /\ pc = "idle"
    /\ \E cfg \in Configs :
          /\ sipmQTSShift_ = cfg.sipmQTSShift
          /\ sipmQNTStoSum_ = cfg.sipmQNTStoSum
    /\ depth \in UninitFloat
    /\ digis = <<>>
    /\ iInput = <<>>
    /\ overrun = {}
    /\ tmp = <<>>
    /\ iOutput = <<>>
    /\ out = <<>>
    /\ err = ""
    /\ writes = <<>>
    /\ lookups = <<>>
    /\ factors = <<>>

Init ==
    /\ Constructed
    /\ probe = NoProbe
    /\ answer = NoAnswer

\* The framework starts a cycle when none is in flight.
CanAcquire == pc \in {"idle", "produced", "aborted"}

\* Every way acquire can end over the buffer and the ledger the last cycle
\* left: one outcome per collection, per fate of a write past the buffer and
\* per fate of an int sum that overflows.
OutcomesOver(prevInput, prevLedger, cfg, member) ==
    {[coll |-> coll,
      r |-> AcquireResult(prevInput, prevLedger, coll, cfg, member, segv, wraps)] :
        coll \in Collections, segv \in BOOLEAN, wraps \in BOOLEAN}

\* The outcomes of the first acquire of a producer, by the value of `depth`
\* and the configuration, worked out once.
AcquireOutcomes ==
    [member \in UninitFloat |->
        [cfg \in Configs |-> OutcomesOver(<<>>, <<>>, cfg, member)]]

\* acquire sees the last cycle only through the buffer and the ledger it
\* starts from: where these are the ones a first acquire starts from, its
\* outcomes are those of a first acquire.
OutcomesFrom(prevInput, prevLedger, cfg, member) ==
    IF /\ StartInput(prevInput) = StartInput(<<>>)
       /\ StartLedger(prevLedger) = StartLedger(<<>>)
    THEN AcquireOutcomes[member][cfg]
    ELSE OutcomesOver(prevInput, prevLedger, cfg, member)

\* acquire(iEvent, iSetup, iInput)
Acquire ==
    /\ CanAcquire
    /\ \E o \in OutcomesFrom(iInput, tmp,
                            [sipmQTSShift |-> sipmQTSShift_,
                             sipmQNTStoSum |-> sipmQNTStoSum_], depth) :
          /\ digis' = o.coll
          /\ iInput' = o.r.iInput
          /\ overrun' = o.r.overrun
          /\ tmp' = o.r.tmp
          /\ writes' = o.r.writes
          /\ lookups' = o.r.lookups
          /\ factors' = o.r.factors
          /\ err' = IF o.r.status = "ok" THEN "" ELSE o.r.status
          /\ pc' = CASE o.r.status = "ok" -> "acquired"
                     [] o.r.status = "HBHEPhase1BadDB" -> "aborted"
                     [] OTHER -> "crashed"
    /\ out' = <<>>
    /\ iOutput' = <<>>
    /\ UNCHANGED <<sipmQTSShift_, sipmQNTStoSum_, depth, probe, answer>>

\* The inference client answers the request of the cycle.
Predict ==
    /\ pc = "acquired"
    /\ iOutput' \in Outputs
    /\ pc' = "inferred"
    /\ UNCHANGED <<sipmQTSShift_, sipmQNTStoSum_, depth, digis, iInput, overrun,
                   tmp, out, err, writes, lookups, factors, probe, answer>>

\* A produce that walks the ledger from its end.
RecHitOut_Reversed(ledger, output, k) ==
    HBHERecHit(ledger[Len(ledger) + 1 - k].id, 1, 0, 0)

\* The rec hit produce makes of ledger entry k (1-based) and the output:
\* the identity of the entry, an energy of 0.5, and nothing of the output.
RecHitOut(ledger, output, k) == HBHERecHit(ledger[k].id, 1, 0, 0)

\* A produce that empties the ledger once it has walked it.
LedgerAfterProduce_Cleared(ledger) == <<>>

\* The ledger after produce: produce only reads it.
LedgerAfterProduce(ledger) == ledger

\* produce(iEvent, iSetup, iOutput)
Produce ==
    /\ pc = "inferred"
    /\ out' = [k \in 1..Len(tmp) |-> RecHitOut(tmp, iOutput, k)]
    /\ tmp' = LedgerAfterProduce(tmp)
    /\ pc' = "produced"
    /\ UNCHANGED <<sipmQTSShift_, sipmQNTStoSum_, depth, digis, iInput, overrun,
                   iOutput, err, writes, lookups, factors, probe, answer>>

Next == Acquire \/ Predict \/ Produce

Spec == Init /\ [][Next]_vars

\* ------------------------------------------- one channel, one corrector
\* A frame of six samples, one whose window sits on the pedestal while
\* slices 1 and 6 carry signal, and the channels that hold them.
Frame6 ==
    [nRead |-> 6,
     adc   |-> <<1, 1, 2, 6, 9, 4>>,
     capid |-> <<0, 1, 2, 3, 0, 1>>]
FramePed ==
    [nRead |-> 8,
     adc   |-> <<1, 3, 1, 1, 1, 1, 3, 1>>,
     capid |-> <<0, 1, 2, 3, 0, 1, 2, 3>>]

DigiShort == Digi(Cell(HcalEndcap, 5, 2, 3), Frame6, Cond(<<1, 1, 2, 1>>, 2, 1))
DigiPed == Digi(Cell(HcalBarrel, 1, 1, 3), FramePed, Cond(<<1, 1, 1, 1>>, 1, 1))
\* The same channel behind a SiPM whose table is 2 at zero.
DigiPed2 == Digi(Cell(HcalBarrel, 1, 1, 3), FramePed, Cond(<<1, 1, 1, 1>>, 1, 2))

ProbeDigis == {DigiHB, DigiHE, DigiHOBad, DigiShort, DigiPed, DigiPed2}

\* Values of the int members sipmQTSShift_ and sipmQNTStoSum_: they are set
\* from unsigned parameters, so every int can occur.
Shifts == {-4, 0, 2, 7, 2147483647}
NTStoSums == {-1, 0, 3, 12, 2147483647}
\* Values of the argument soi of the constructor.
Sois == {0, soi}
\* What memory past the end of a frame can hold.
JunkSamples == {JunkSample, [adc |-> 5, capid |-> 3]}

Probes ==
    [kind : {"QIE11", "legacy"}, digi : ProbeDigis,
     sipmQTSShift : Shifts, sipmQNTStoSum : NTStoSums, soi : Sois,
     junk : JunkSamples, wraps : BOOLEAN]

\* The sample indices the charge loop of processData reads frame[] and cs[]
\* at, in order; each with whether the frame holds that sample.
LoopReads(frame) ==
    [k \in 1..nCycles |-> [inputTS |-> k - 1, inFrame |-> k - 1 < frame.nRead]]

\* The body of the loop of processData from the decoding of the frame to
\* the last charge, for one QIE11 channel: what the corrector read and
\* computed, and the charges the loop got from it.
CorrectChannel(p) ==
    LET d     == p.digi
        cs    == adc2fC(d.frame)
        maxTS == Min(cs.size, MAXSAMPLES)
        rcfs  == RawChargeFromSample(p.sipmQTSShift, p.sipmQNTStoSum, d.cond, cs,
                                     p.soi, d.frame, maxTS, p.junk, p.wraps)
        ws    == ChannelWrites(d, 0, rcfs, cs, 0, p.junk)
    IN  [done |-> TRUE, thrown |-> rcfs.thrown, maxTS |-> maxTS,
         firstTS |-> rcfs.firstTS, lastTS |-> rcfs.lastTS,
         window |-> rcfs.window, sipmQ |-> rcfs.sipmQ, fcByPE |-> d.cond.fcByPE,
         factor |-> rcfs.factor,
         lookups |-> IF rcfs.thrown THEN LookupsInit ELSE LookupsInit \o LookupsBody,
         reads |-> IF rcfs.thrown THEN <<>> ELSE LoopReads(d.frame),
         decoded |-> cs.data,
         peds |-> [ts \in 0..(MAXSAMPLES - 1) |->
                     pedestal(d.cond, FrameAt(d.frame, ts, p.junk).capid)],
         charges |-> IF rcfs.thrown THEN <<>>
                     ELSE [k \in 1..nCycles |-> ws[k].val]]

\* The same for a frame kind other than QIE11, which gets the corrector of
\* the primary template.
CorrectChannelLegacy(p) ==
    LET d     == p.digi
        cs    == adc2fC(d.frame)
        maxTS == Min(cs.size, MAXSAMPLES)
        rcfs  == RawChargeFromSampleGeneric(p.sipmQTSShift, p.sipmQNTStoSum, d.cond, cs,
                                            p.soi, d.frame, maxTS, p.junk, p.wraps)
        peds  == [ts \in 0..(MAXSAMPLES - 1) |->
                     pedestal(d.cond, FrameAt(d.frame, ts, p.junk).capid)]
    IN  [done |-> TRUE, thrown |-> rcfs.thrown, maxTS |-> maxTS,
         window |-> rcfs.window,
         lookups |-> rcfs.lookups,
         decoded |-> cs.data,
         peds |-> peds,
         charges |-> [k \in 1..nCycles |->
                        getRawChargeGeneric(rcfs, cs.data[k - 1], peds[k - 1])]]

InitChannel ==
    /\ Constructed
    /\ probe \in Probes
    /\ answer = NoAnswer

Correct ==
    /\ probe.kind = "QIE11"
    /\ ~answer.done
    /\ answer' = CorrectChannel(probe)
    /\ UNCHANGED <<pc, sipmQTSShift_, sipmQNTStoSum_, depth, digis, iInput, overrun,
                   tmp, iOutput, out, err, writes, lookups, factors, probe>>

CorrectLegacy ==
    /\ probe.kind = "legacy"
    /\ ~answer.done
    /\ answer' = CorrectChannelLegacy(probe)
    /\ UNCHANGED <<pc, sipmQTSShift_, sipmQNTStoSum_, depth, digis, iInput, overrun,
                   tmp, iOutput, out, err, writes, lookups, factors, probe>>

NextChannel == Correct \/ CorrectLegacy

SpecChannel == InitChannel /\ [][NextChannel]_vars

\* ---------------------------------------------------------------- claims
\* The three subdetectors the producer is responsible for.
Recognised(d) == d.id.subdet \in {HcalBarrel, HcalEndcap, HcalOuter}

AdmittedPlaces(coll) == {p \in 1..Len(coll) : Recognised(coll[p])}
\* The admitted digis of a collection, in order.
AdmittedDigis(coll) == SelectSeq(coll, Recognised)
\* How many admitted digis come before place p: the row the p-th digi is due.
Rank(coll, p) == Cardinality({q \in AdmittedPlaces(coll) : q < p})
HasBadCalibration(coll) == \E p \in AdmittedPlaces(coll) : coll[p].cond.fcByPE <= 0

\* acquire has returned normally in this cycle.
Returned == pc \in {"acquired", "inferred", "produced"}
\* acquire has run in this cycle, however it ended.
Ran == pc # "idle"

\* Every digi of the event, admitted or not, has a row of its own in the
\* buffer: no write of the cycle can fall past its end.
FitsBuffer == Len(digis) <= batchSize

WrittenPlaces == {writes[k].pos : k \in 1..Len(writes)}
\* The row the code used for the digi at place p: that of its first write,
\* charge 0 of the row.
FirstWriteOf(p) == writes[CHOOSE k \in 1..Len(writes) :
                             /\ writes[k].pos = p
                             /\ \A j \in 1..(k - 1) : writes[j].pos # p]
RowUsed(p) == (FirstWriteOf(p).idx - 2) \div ninput

\* C1 (capacity boundary): a collection with exactly batchSize admitted
\* channels is acquired normally with every write below batchSize*ninput, and
\* one with batchSize+1 admitted channels ends in an explicit CapacityExceeded
\* outcome without any write at or past batchSize*ninput.
C1_CapacityBoundary ==
    (Ran /\ ~HasBadCalibration(digis)) =>
        /\ Cardinality(AdmittedPlaces(digis)) = batchSize =>
              /\ Returned
              /\ \A k \in 1..Len(writes) : writes[k].idx < BufLen
        /\ Cardinality(AdmittedPlaces(digis)) = batchSize + 1 =>
              /\ err = "CapacityExceeded"
              /\ overrun = {}
              /\ \A k \in 1..Len(writes) : writes[k].idx < BufLen

\* C2 (row assignment): the i-th admitted channel, counting admitted channels
\* only and from 0, is written to row i, whatever rejected channels stand
\* between the admitted ones.  Stated for the events that fit the buffer.
C2_RowIsAdmittedRank ==
    FitsBuffer => \A p \in WrittenPlaces : RowUsed(p) = Rank(digis, p)

\* C3 (eta and phi of a row): after acquire the ledger has one entry per
\* admitted channel and slots 0 and 1 of row i hold the ieta and iphi of
\* ledger entry i.  Stated for the events that fit the buffer.
C3_EtaPhiAligned ==
    (pc = "acquired" /\ FitsBuffer) =>
        /\ Len(tmp) = Cardinality(AdmittedPlaces(digis))
        /\ \A i \in 0..(Len(tmp) - 1) :
              i < batchSize =>
                 /\ iInput[i * ninput] = tmp[i + 1].id.ieta
                 /\ iInput[i * ninput + 1] = tmp[i + 1].id.iphi

\* C4 (one-hot depth): after acquire the depth block of the row of an
\* admitted channel (offsets 11..14) holds a 1 in the slot of the channel's
\* own depth and 0 in the three others.  Stated for the events that fit the
\* buffer.
C4_OneHotDepth ==
    (pc = "acquired" /\ FitsBuffer) =>
        \A p \in WrittenPlaces :
            RowUsed(p) < batchSize =>
                \A k \in 1..4 :
                    iInput[RowUsed(p) * ninput + 10 + k]
                        = (IF digis[p].id.depth = k THEN 1 ELSE 0)

Ids(hits) == [k \in 1..Len(hits) |-> hits[k].id]
DigiIds(coll) == [k \in 1..Len(coll) |-> coll[k].id]

\* C5 (order-preserving round trip): produce emits one record per ledger
\* entry, in ledger order, each with the identity of its entry, so the
\* identities emitted are those of the admitted digis of the event in their
\* original order.
C5_RoundTripOrder ==
    pc = "produced" =>
        /\ Len(out) = Len(tmp)
        /\ \A k \in 1..Len(out) : out[k].id = tmp[k].id
        /\ Ids(out) = DigiIds(AdmittedDigis(digis))

\* Produce has emitted two different channels in order, with a rejected
\* channel standing between admitted ones in the event.
C5_Witness ==
    /\ pc = "produced"
    /\ Len(out) >= 2
    /\ out[1].id # out[2].id
    /\ \E p \in 2..(Len(digis) - 1) :
          /\ ~Recognised(digis[p])
          /\ Recognised(digis[p - 1])
          /\ Recognised(digis[p + 1])

\* C6 (reconciliation uses the inference output): the record of ledger entry
\* i carries the identity of the entry and scalars taken from row i of the
\* output given to produce, so an output that differs in row i would have
\* given another record for entry i.  Stated for the events that fit the
\* buffer.
C6_RecordsUseOutput ==
    (pc = "produced" /\ FitsBuffer) =>
        \A k \in 1..Len(out) :
            /\ out[k].id = tmp[k].id
            /\ k - 1 < batchSize =>
                  \A other \in Outputs :
                      other[k - 1] # iOutput[k - 1] =>
                          RecHitOut(tmp, other, k) # out[k]

\* The first admitted digi of the collection whose fC/PE factor is not positive.
FirstBadPlace(coll) ==
    CHOOSE p \in AdmittedPlaces(coll) :
        /\ coll[p].cond.fcByPE <= 0
        /\ \A q \in AdmittedPlaces(coll) : q < p => coll[q].cond.fcByPE > 0

LookupsAt(p) == SelectSeq(lookups, LAMBDA l : l.pos = p)
Reached(p) == \E k \in 1..Len(lookups) : lookups[k].pos = p

\* C7 (fatal calibration fault): when an admitted channel of the event has an
\* fC/PE factor <= 0, building its corrector throws HBHEPhase1BadDB before a
\* factor is computed, the exception leaves acquire and ends the cycle, and
\* the cycle emits no record for any channel.  (The corrector of the channel
\* is not built at all when the process has already faulted on a write past
\* the buffer; no record is emitted then either.)
C7_FatalCalibrationFault ==
    (Ran /\ HasBadCalibration(digis)) =>
        LET p == FirstBadPlace(digis)
        IN  /\ ~Returned
            /\ out = <<>>
            /\ Reached(p) =>
                  /\ pc = "aborted"
                  /\ err = "HBHEPhase1BadDB"
                  /\ \A k \in 1..Len(factors) : factors[k].pos < p
                  /\ \A k \in 1..Len(writes) : writes[k].pos < p
                  /\ \A k \in 1..Len(lookups) : lookups[k].pos <= p
                  /\ LookupsAt(p) = Tag(p, LookupsBefore \o LookupsInit)
            /\ ~Reached(p) => pc = "crashed"

\* acquire was aborted by a bad channel that came after a good one.
C7_Witness ==
    /\ pc = "aborted"
    /\ err = "HBHEPhase1BadDB"
    /\ HasBadCalibration(digis)
    /\ Len(tmp) >= 1
    /\ FirstBadPlace(digis) < Len(digis)

\* C8 (stability in flight): between the return of acquire and the end of
\* produce no step changes the ledger or the input buffer of the cycle, the
\* step of produce included.
C8_InFlightStable ==
    [][(pc = "acquired" \/ pc = "inferred") => (tmp' = tmp /\ iInput' = iInput)]_vars

\* produce has run over a ledger of two entries, which is still there.
C8_Witness ==
    /\ pc = "produced"
    /\ Len(tmp) = 2
    /\ Len(out) = 2
    /\ iInput # ZeroInput

\* How many places of the event the loop has been through.
PlacesDone ==
    IF Returned THEN Len(digis)
    ELSE IF lookups = <<>> THEN 0
    ELSE lookups[Len(lookups)].pos - 1

\* C9 (channel filter): a channel is admitted exactly when its subdetector is
\* barrel, endcap or outer; a rejected channel raises no error, writes no
\* slot, adds nothing to the ledger and makes no conditions lookup.
C9_ChannelFilter ==
    Ran =>
        /\ \A p \in 1..Len(digis) :
              ~Recognised(digis[p]) =>
                  /\ \A k \in 1..Len(writes) : writes[k].pos # p
                  /\ \A k \in 1..Len(lookups) : lookups[k].pos # p
                  /\ \A k \in 1..Len(factors) : factors[k].pos # p
        /\ Ids(tmp) = DigiIds(AdmittedDigis(SubSeq(digis, 1, PlacesDone)))
        /\ \A p \in 1..PlacesDone : Recognised(digis[p]) => Reached(p)
        /\ ~Returned => /\ lookups # <<>>
                        /\ Recognised(digis[lookups[Len(lookups)].pos])
        /\ AdmittedPlaces(digis) = {} =>
              /\ Returned
              /\ err = ""
              /\ iInput = ZeroInput
              /\ tmp = <<>>

\* acquire returned over an event with a rejected channel before an
\* admitted one.
C9_Witness ==
    /\ pc = "acquired"
    /\ Len(tmp) >= 1
    /\ \E p \in 1..(Len(digis) - 1) :
          /\ ~Recognised(digis[p])
          /\ Recognised(digis[p + 1])

\* C10 (non-overlapping row writes): every write made for a channel lands in
\* the index range of the channel's own row, no two channels write the same
\* slot, and after acquire the charge slots still hold the charges written.
\* Stated for the events that fit the buffer.
C10_RowWritesDisjoint ==
    FitsBuffer =>
        /\ \A k \in 1..Len(writes) :
              writes[k].idx \div ninput = RowUsed(writes[k].pos)
        /\ \A j, k \in 1..Len(writes) :
              writes[j].pos # writes[k].pos => writes[j].idx # writes[k].idx
        /\ pc = "acquired" =>
              \A k \in 1..Len(writes) :
                  (writes[k].slot = "charge" /\ writes[k].idx < BufLen) =>
                      iInput[writes[k].idx] = writes[k].val

\* ------------------------------------------------------------------
\* The corrector of a QIE11 channel was built and did not throw.
Corrected == answer.done /\ probe.kind = "QIE11" /\ ~answer.thrown

\* Whether the number a + b is an int.
FitsInt(a, b) ==
    /\ (b > 0 => a <= 2147483647 - b)
    /\ (b < 0 => a >= (-2147483647 - 1) - b)

\* C11: for all soi, sipmQTSShift, sipmQNTStoSum and maxTS the corrector uses
\* firstTS = max(soi + sipmQTSShift, 0) and lastTS = min(firstTS +
\* sipmQNTStoSum, maxTS), the sums being those of the numbers (a sum past the
\* ints puts firstTS past maxTS, and lastTS at maxTS); every sample index it
\* reads lies in 0..maxTS-1; and when max(soi + sipmQTSShift, 0) is at or
\* past maxTS it reads no sample, the summed charge is 0 and the pixels fired
\* are 0 over a divisor that is not 0.
C11_WindowClamping ==
    Corrected =>
        /\ IF FitsInt(probe.soi, probe.sipmQTSShift)
           THEN answer.firstTS = Max(probe.soi + probe.sipmQTSShift, 0)
           ELSE answer.firstTS >= answer.maxTS
        /\ IF FitsInt(answer.firstTS, probe.sipmQNTStoSum)
           THEN answer.lastTS = Min(answer.firstTS + probe.sipmQNTStoSum, answer.maxTS)
           ELSE answer.lastTS = answer.maxTS
        /\ \A k \in 1..Len(answer.window) :
              0 <= answer.window[k] /\ answer.window[k] < answer.maxTS
        /\ (probe.sipmQTSShift >= answer.maxTS - probe.soi =>
              /\ answer.window = <<>>
              /\ answer.sipmQ = 0
              /\ answer.fcByPE # 0)

\* The conditions that are looked up by channel: the calibrations with the
\* pedestals, the SiPM parameter, the nonlinearity table of its SiPM type.
PerChannelLookups ==
    {"getHcalCalibrations", "getHcalSiPMParameter", "getHcalSiPMCharacteristics"}

\* How many times acquire looked `what` up for the digi at place p.
TimesLookedUp(p, what) ==
    Cardinality({k \in 1..Len(lookups) : lookups[k] = [pos |-> p, what |-> what]})

\* C12: in a cycle whose acquire returned, each per-channel lookup is issued
\* exactly once for every admitted channel, the lookups of processData and of
\* the constructor of the corrector counted together.
C12_LookupsOnce ==
    (Returned /\ FitsBuffer) =>
        \A p \in AdmittedPlaces(digis) :
            \A what \in PerChannelLookups : TimesLookedUp(p, what) = 1

\* The decoded charge is the pedestal at every slice of the window the
\* corrector summed, and the table of the channel's SiPM is 1 at zero.
OnPedestal ==
    /\ Corrected
    /\ \A k \in 1..Len(answer.window) :
          answer.decoded[answer.window[k]] = answer.peds[answer.window[k]]
    /\ getRecoCorrectionFactor(probe.digi.cond.sipmType, 0, probe.digi.cond.fcByPE) = 1

\* C13 as stated: with the decoded charge on the pedestal through the window
\* and a table that is 1 at zero, the integrated charge is 0, the pixels
\* fired are 0, and the corrected value of every time slice of the channel
\* is that slice's pedestal.
C13_PedestalEverySlice ==
    OnPedestal =>
        /\ answer.sipmQ = 0
        /\ answer.fcByPE # 0
        /\ \A k \in 1..nCycles : answer.charges[k] = answer.peds[k - 1]

\* C13 (pedestal preservation): with the decoded charge on the pedestal
\* through the window and a table that is 1 at zero, the integrated charge is
\* 0, the pixels fired are 0, the factor is 1, and the corrected value of
\* every time slice is that slice's decoded charge: the pedestal at every
\* slice of the window, and the charge as decoded outside it.
C13_PedestalPreserved ==
    OnPedestal =>
        /\ answer.sipmQ = 0
        /\ answer.fcByPE # 0
        /\ answer.factor = 1
        /\ \A k \in 1..nCycles : answer.charges[k] = answer.decoded[k - 1]
        /\ \A k \in 1..Len(answer.window) :
              answer.window[k] < nCycles =>
                  answer.charges[answer.window[k] + 1] = answer.peds[answer.window[k]]

\* A channel on its pedestal through a window of three slices, with signal
\* in a slice outside the window.
C13_Witness ==
    /\ OnPedestal
    /\ Len(answer.window) = 3
    /\ \E k \in 1..nCycles : answer.decoded[k - 1] # answer.peds[k - 1]

\* C14 (identity on the legacy path): for a frame kind other than QIE11 the
\* corrector hands back every decoded charge unchanged, whatever the
\* pedestal, and building it looks up no condition, reads no sample and does
\* not throw, whatever the SiPM parameter of the channel.
C14_LegacyIdentity ==
    (answer.done /\ probe.kind = "legacy") =>
        /\ ~answer.thrown
        /\ answer.lookups = <<>>
        /\ answer.window = <<>>
        /\ \A k \in 1..nCycles : answer.charges[k] = answer.decoded[k - 1]

\* A legacy corrector built for a channel whose fC/PE factor is 0, and used
\* on a slice whose charge is not its pedestal.
C14_Witness ==
    /\ answer.done
    /\ probe.kind = "legacy"
    /\ probe.digi.cond.fcByPE <= 0
    /\ \E k \in 1..nCycles : answer.decoded[k - 1] # answer.peds[k - 1]

\* C16: every sample index at which the charge loop reads the frame and the
\* decoded charges of an admitted channel is below maxTS = min(nRead,
\* MAXSAMPLES), for frames of every length.
C16_ReadsInsideFrame ==
    Corrected =>
        \A k \in 1..Len(answer.reads) :
            /\ answer.reads[k].inputTS < answer.maxTS
            /\ answer.reads[k].inFrame

\* The value the buffer holds at index i if it was zeroed when this acquire
\* began: that of the last write of this acquire there, 0 without one.
LastWriteAt(i) ==
    LET ks == {k \in 1..Len(writes) : writes[k].idx = i}
    IN  IF ks = {} THEN 0
        ELSE writes[CHOOSE k \in ks : \A j \in ks : j <= k].val

\* C15 (cross-cycle isolation): in every cycle, whatever cycles came before
\* it on the producer, the buffer has ninput*batchSize slots and holds 0
\* wherever the acquire of this cycle did not write, the ledger holds the
\* admitted channels of this cycle's event that acquire got through and no
\* other entry, and the records produce emits are those of the admitted
\* channels of this cycle's event.
C15_CrossCycleIsolation ==
    Ran =>
        /\ DOMAIN iInput = 0..(BufLen - 1)
        /\ \A i \in 0..(BufLen - 1) : iInput[i] = LastWriteAt(i)
        /\ Ids(tmp) = DigiIds(AdmittedDigis(SubSeq(digis, 1, PlacesDone)))
        /\ pc = "produced" => Ids(out) = DigiIds(AdmittedDigis(digis))

\* An acquire that was aborted part-way has left a ledger entry and values
\* in the buffer for the next cycle to start over.
C15_Witness ==
    /\ pc = "aborted"
    /\ FitsBuffer
    /\ tmp # <<>>
    /\ \E i \in 0..(BufLen - 1) : iInput[i] # 0

====
